---- MODULE Spec2Model ----
(***************************************************************************)
(* A model of the Coinspaid API client: construction of a Client, the two  *)
(* operations TakeAddress and WithdrawCrypto, the signing of the request   *)
(* body, the classification of the HTTP response (checkResponse) and the   *)
(* decoding of the {"data": ...} envelope.                                 *)
(*                                                                         *)
(* A JSON document is modelled by its parse tree, and the text of a body   *)
(* by the rendering of that tree; encoding/json and net/url are modelled   *)
(* by what they do on those trees (type errors, skipped fields, null as a  *)
(* no-op, invalid UTF-8 replaced by U+FFFD, RFC 3986 reference             *)
(* resolution).                                                            *)
(***************************************************************************)
EXTENDS Integers, Sequences, FiniteSets, TLC

VARIABLES
    client,     \* the *Client the last NewClient returned (nil flag set: none)
    newArgs,    \* the arguments of the last NewClient call
    newErr,     \* the error the last NewClient returned ("" is nil)
    pc,         \* per call: idle, doRequest, awaiting, done
    op,         \* per call: "TakeAddress" or "WithdrawCrypto"
    input,      \* per call: the input struct the caller passed
    req,        \* per call: the *http.Request built by the operation
    sent,       \* per call: how many times httpClient.Do was handed the request
    res,        \* per call: what the transport delivered
    err,        \* per call: the error returned to the caller
    out         \* per call: the output pointer returned to the caller

vars == <<client, newArgs, newErr, pc, op, input, req, sent, res, err, out>>

(***************************************************************************)
(* JSON values.  A leaf is [t, v]: its JSON type and its raw content (the  *)
(* characters of a string, the literal text of a number).                  *)
(***************************************************************************)
JAbsent == [t |-> "absent", v |-> ""]

JNull == [t |-> "null", v |-> "null"]

JStr(s) == [t |-> "str", v |-> s]

JNum(n) == [t |-> "num", v |-> n]

\* A Go string holding a byte that is not valid UTF-8, and what encoding/json
\* turns it into, on encoding as on decoding: the replacement rune.
BadUTF8 == "<0xFF>"

ReplacementChar == "<U+FFFD>"

ToValidUTF8(s) == IF s = BadUTF8 THEN ReplacementChar ELSE s

\* The raw JSON text of a leaf.
RenderLeaf(j) ==
    IF j.t = "str" THEN "\"" \o j.v \o "\"" ELSE j.v

RECURSIVE RenderMembers(_, _)
\* The members of an object, keys in the order of the sequence ks, absent
\* members left out.  f maps each key to its rendered value ("" when absent).
RenderMembers(ks, f) ==
    IF ks = <<>> THEN ""
    ELSE LET k    == Head(ks)
             rest == RenderMembers(Tail(ks), f)
         IN  IF f[k] = "" THEN rest
             ELSE "\"" \o k \o "\":" \o f[k] \o (IF rest = "" THEN "" ELSE "," \o rest)

(***************************************************************************)
(* Response bodies.  A body is empty, text that is not JSON, or a JSON     *)
(* value; of an object the model keeps the members the decoders look at:   *)
(* error, code (ErrorResponse), errors (ValidationErrorResponse), data     *)
(* (Address, WithdrawCryptoPayload) and Response (the untagged exported    *)
(* field of both error structs).                                           *)
(***************************************************************************)
DataKeys ==
    <<"id", "foreign_id", "currency", "convert_to", "address", "tag", "type",
      "status", "amount", "sender_currency", "sender_amount",
      "receiver_currency", "receiver_amount">>

DataKeySet == {DataKeys[i] : i \in DOMAIN DataKeys}

NoMembers == [k \in DataKeySet |-> JAbsent]

DataAbsent == [t |-> "absent", f |-> NoMembers]

DataNull == [t |-> "null", f |-> NoMembers]

DataNum == [t |-> "num", f |-> NoMembers]

DataObj(f) == [t |-> "obj", f |-> f]

ErrorsAbsent == [t |-> "absent", foreign_id |-> JAbsent]

ErrorsNull == [t |-> "null", foreign_id |-> JAbsent]

ErrorsStr == [t |-> "str", foreign_id |-> JAbsent]

\* An errors object with the one member foreign_id.
ErrorsObj(m) == [t |-> "obj", foreign_id |-> m]

ResponseAbsent == [t |-> "absent", StatusCode |-> JAbsent]

ResponseNull == [t |-> "null", StatusCode |-> JAbsent]

\* A Response object with the one member StatusCode.
ResponseObj(c) == [t |-> "obj", StatusCode |-> c]

EmptyBody ==
    [syn |-> "empty", error |-> JAbsent, code |-> JAbsent, errors |-> ErrorsAbsent,
     data |-> DataAbsent, Response |-> ResponseAbsent]

\* Text that is not JSON (a plain-text or HTML error page).
InvalidBody == [EmptyBody EXCEPT !.syn = "invalid"]

NullBody == [EmptyBody EXCEPT !.syn = "null"]

ArrayBody == [EmptyBody EXCEPT !.syn = "array"]

ObjectBody(e, c, es, d, r) ==
    [syn |-> "object", error |-> e, code |-> c, errors |-> es, data |-> d,
     Response |-> r]

RenderData(d) ==
    CASE d.t = "obj" ->
           "{" \o RenderMembers(DataKeys,
                    [k \in DataKeySet |->
                        IF d.f[k].t = "absent" THEN "" ELSE RenderLeaf(d.f[k])]) \o "}"
      [] d.t = "null" -> "null"
      [] d.t = "num" -> "5"
      [] OTHER -> ""

RenderErrors(es) ==
    CASE es.t = "obj" ->
           "{" \o RenderMembers(<<"foreign_id">>,
                    [k \in {"foreign_id"} |->
                        IF es.foreign_id.t = "absent" THEN ""
                        ELSE RenderLeaf(es.foreign_id)]) \o "}"
      [] es.t = "null" -> "null"
      [] es.t = "str" -> "\"invalid\""
      [] OTHER -> ""

RenderResponse(r) ==
    CASE r.t = "obj" ->
           "{" \o RenderMembers(<<"StatusCode">>,
                    [k \in {"StatusCode"} |->
                        IF r.StatusCode.t = "absent" THEN ""
                        ELSE RenderLeaf(r.StatusCode)]) \o "}"
      [] r.t = "null" -> "null"
      [] OTHER -> ""

\* string(body): the text of a body.
BodyText(b) ==
    CASE b.syn = "empty" -> ""
      [] b.syn = "invalid" -> "Forbidden"
      [] b.syn = "null" -> "null"
      [] b.syn = "array" -> "[]"
      [] OTHER ->
           "{" \o RenderMembers(<<"error", "code", "errors", "data", "Response">>,
                    [k \in {"error", "code", "errors", "data", "Response"} |->
                        CASE k = "error" ->
                               IF b.error.t = "absent" THEN "" ELSE RenderLeaf(b.error)
                          [] k = "code" ->
                               IF b.code.t = "absent" THEN "" ELSE RenderLeaf(b.code)
                          [] k = "errors" -> RenderErrors(b.errors)
                          [] k = "data" -> RenderData(b.data)
                          [] OTHER -> RenderResponse(b.Response)]) \o "}"

\* The bodies the server answers with: the test fixtures and their neighbours.
ErrorBodies ==
    {ObjectBody(e, c, ErrorsAbsent, DataAbsent, ResponseAbsent) :
        e \in {JAbsent, JNull, JStr("Bad key header"), JNum("5")},
        c \in {JAbsent, JStr("bad_header_key"), JNum("7")}}

ValidationBodies ==
    {ObjectBody(JAbsent, JAbsent, es, DataAbsent, ResponseAbsent) :
        es \in {ErrorsNull, ErrorsStr,
                ErrorsObj(JStr("The foreign id field is required.")),
                ErrorsObj(JNum("5"))}}

ResponseBodies ==
    {ObjectBody(JAbsent, JAbsent, ErrorsAbsent, DataAbsent, r) :
        r \in {ResponseNull, ResponseObj(JNum("400")), ResponseObj(JNum("403")),
               ResponseObj(JStr("400"))}}

DataMembers ==
    {[NoMembers EXCEPT !["id"] = i, !["foreign_id"] = f, !["currency"] = c,
                       !["status"] = s,
                       !["convert_to"] = JStr("EUR"),
                       !["address"] = JStr("12983h13ro1hrt24it432t"),
                       !["tag"] = JStr("tag-123"),
                       !["type"] = JStr("withdrawal"),
                       !["amount"] = JStr("0.01000000"),
                       !["sender_currency"] = JStr("ETH"),
                       !["sender_amount"] = JStr("0.01000000"),
                       !["receiver_currency"] = JStr("ETH"),
                       !["receiver_amount"] = JStr("0.01000000")] :
        i \in {JAbsent, JNum("1"), JStr("1")},
        f \in {JStr("user-id:2048"), JStr(BadUTF8)},
        c \in {JStr("EUR"), JStr("BTC"), JNum("5")},
        s \in {JStr("processing"), JNum("0")}}

DataBodies ==
    {ObjectBody(JAbsent, JAbsent, ErrorsAbsent, d, ResponseAbsent) :
        d \in {DataNull, DataNum} \cup {DataObj(f) : f \in DataMembers}}

Bodies ==
    {EmptyBody, InvalidBody, NullBody, ArrayBody}
        \cup ErrorBodies \cup ValidationBodies \cup ResponseBodies \cup DataBodies

(***************************************************************************)
(* URLs.  A *url.URL is its scheme, its host and its path, the path split  *)
(* at every "/" ("/api/v2/" is <<"", "api", "v2", "">>, "" is <<>>).  The  *)
(* segments "." and ".." occur in no endpoint of the model.                *)
(***************************************************************************)
APIBaseLiveURL == "https://app.coinspaid.com/api/v2/"

\* The live endpoint written without its final slash.
APIBaseNoSlash == "https://app.coinspaid.com/api/v2"

\* An endpoint with no path, as httptest.NewServer hands out.
TestServerURL == "http://127.0.0.1:8080"

\* url.Parse fails on it: "missing protocol scheme".
UnparsableEndpoint == "://bad"

Endpoints == {"", UnparsableEndpoint, APIBaseLiveURL, APIBaseNoSlash, TestServerURL}

ZeroURL == [Scheme |-> "", Host |-> "", Path |-> <<>>]

\* url.Parse(rawurl): the parsed URL, or an error.
url_Parse(rawurl) ==
    CASE rawurl = APIBaseLiveURL ->
           [ok |-> TRUE,
            URL |-> [Scheme |-> "https", Host |-> "app.coinspaid.com",
                     Path |-> <<"", "api", "v2", "">>]]
      [] rawurl = APIBaseNoSlash ->
           [ok |-> TRUE,
            URL |-> [Scheme |-> "https", Host |-> "app.coinspaid.com",
                     Path |-> <<"", "api", "v2">>]]
      [] rawurl = TestServerURL ->
           [ok |-> TRUE,
            URL |-> [Scheme |-> "http", Host |-> "127.0.0.1:8080", Path |-> <<>>]]
      [] rawurl = "" -> [ok |-> TRUE, URL |-> ZeroURL]
      [] OTHER -> [ok |-> FALSE, URL |-> ZeroURL]

RECURSIVE JoinPath(_)
\* The segments joined by "/".
JoinPath(segs) ==
    IF segs = <<>> THEN ""
    ELSE IF Len(segs) = 1 THEN segs[1]
    ELSE segs[1] \o "/" \o JoinPath(Tail(segs))

\* (*URL).String()
URLString(u) == u.Scheme \o "://" \o u.Host \o JoinPath(u.Path)

\* net/url's resolvePath for a relative reference: the base up to and with
\* its last "/", then the reference; the result is rooted.
resolvePath(base, ref) ==
    IF base = <<>> THEN <<"">> \o ref
    ELSE SubSeq(base, 1, Len(base) - 1) \o ref

\* base.ResolveReference(&url.URL{Path: ref})
ResolveReference(base, ref) ==
    [Scheme |-> base.Scheme, Host |-> base.Host, Path |-> resolvePath(base.Path, ref)]

\* A ResolveReference that resolves in place: the receiver becomes the
\* resolved URL.
ResolveReference_InPlace(base, ref) == ResolveReference(base, ref)

\* The receiver after base.ResolveReference(ref): the method works on a copy
\* of ref and returns it, and reads base without writing to it.
ResolveReference_Receiver(base, ref) == base

(***************************************************************************)
(* Client and NewClient.                                                   *)
(***************************************************************************)
ApiKeys == {"", "key"}

ApiSecrets == {"", "secret"}

NilClient == [nil |-> TRUE, apiKey |-> "", apiSecret |-> "", BaseURL |-> ZeroURL]

NewClient(apiKey, apiSecret, baseEndpoint) ==
    IF apiKey = "" \/ apiSecret = "" \/ baseEndpoint = ""
    THEN [client |-> NilClient,
          err |-> "apiKey, apiSecret and baseEndpoint are required to create a Client"]
    ELSE LET baseURL == url_Parse(baseEndpoint)
         IN  IF ~baseURL.ok
             THEN [client |-> NilClient, err |-> "can't parse base endpoint"]
             ELSE [client |-> [nil |-> FALSE, apiKey |-> apiKey,
                               apiSecret |-> apiSecret, BaseURL |-> baseURL.URL],
                   err |-> ""]

(***************************************************************************)
(* Inputs and their JSON serialization.  One record shape serves both      *)
(* input structs; TakeAddressInput has the fields ForeignID and Currency.  *)
(* Amount is a float64, written as json.Marshal formats it; NaN is the     *)
(* value json.Marshal refuses.                                             *)
(***************************************************************************)
NilInput ==
    [nil |-> TRUE, ForeignID |-> "", Amount |-> "0", Currency |-> "", Address |-> "",
     Tag |-> ""]

TakeAddressInputs ==
    {NilInput} \cup
    {[nil |-> FALSE, ForeignID |-> f, Amount |-> "0", Currency |-> c, Address |-> "",
      Tag |-> ""] : f \in {"user-id:2048", BadUTF8}, c \in {"EUR", "BTC"}}

WithdrawCryptoInputs ==
    {NilInput} \cup
    {[nil |-> FALSE, ForeignID |-> f, Amount |-> a, Currency |-> "BTC",
      Address |-> "3P3QsMVK89JBNqZQv5zMAKG8FK3kJM4rjt", Tag |-> ""] :
        f \in {"user-id:2048", BadUTF8}, a \in {"200000000", "NaN"}}

\* A Go string as a JSON string literal.
MarshalString(s) == "\"" \o ToValidUTF8(s) \o "\""

\* json.Marshal(input): the bytes, or an error.
Marshal(o, in) ==
    IF in.nil THEN [ok |-> TRUE, j |-> "null"]
    ELSE IF o = "TakeAddress"
    THEN [ok |-> TRUE,
          j |-> "{\"foreign_id\":" \o MarshalString(in.ForeignID)
                  \o ",\"currency\":" \o MarshalString(in.Currency) \o "}"]
    ELSE IF in.Amount = "NaN" THEN [ok |-> FALSE, j |-> ""]
    ELSE [ok |-> TRUE,
          j |-> "{\"foreign_id\":" \o MarshalString(in.ForeignID)
                  \o ",\"amount\":" \o in.Amount
                  \o ",\"currency\":" \o MarshalString(in.Currency)
                  \o ",\"address\":" \o MarshalString(in.Address)
                  \o ",\"tag\":" \o MarshalString(in.Tag) \o "}"]

(***************************************************************************)
(* The signer and the request.  The hex HMAC-SHA-512 digest is the pair of *)
(* its key and its message: equal digests have equal keys and messages.    *)
(***************************************************************************)
NoSignature == [alg |-> "", key |-> "", msg |-> ""]

\* A signer that keys the digest with the apiKey instead of the apiSecret.
createSignedRequestHeader_KeyedByApiKey(cl, body) ==
    [alg |-> "hex(HMAC-SHA512)", key |-> cl.apiKey, msg |-> body]

createSignedRequestHeader(cl, body) ==
    [alg |-> "hex(HMAC-SHA512)", key |-> cl.apiSecret, msg |-> body]

NoRequest ==
    [Method |-> "", URL |-> "", Body |-> "",
     Header |-> [Accept |-> "", ContentType |-> "", XProcessingKey |-> "",
                 XProcessingSignature |-> NoSignature]]

\* The relative path of each operation, split at "/".
RelativePath(o) ==
    IF o = "TakeAddress" THEN <<"addresses", "take">> ELSE <<"withdrawal", "crypto">>

\* The header lines of both operations.
SignedHeader(cl, signedBody) ==
    [Accept |-> "application/json", ContentType |-> "application/json",
     XProcessingKey |-> cl.apiKey, XProcessingSignature |-> signedBody]

\* The request TakeAddress and WithdrawCrypto build from the serialized input j.
BuildRequest(cl, o, j) ==
    [Method |-> "POST",
     URL |-> URLString(ResolveReference(cl.BaseURL, RelativePath(o))),
     Body |-> j,
     Header |-> SignedHeader(cl, createSignedRequestHeader(cl, j))]

(***************************************************************************)
(* Decoding.  json.Unmarshal stores what fits, skips a member whose value  *)
(* has the wrong type and then reports the type error; null and an absent  *)
(* member leave the target as it is.                                       *)
(***************************************************************************)
\* strconv.Atoi on the number literals of the model.
Atoi(lit) ==
    CASE lit = "0" -> 0
      [] lit = "1" -> 1
      [] lit = "5" -> 5
      [] lit = "7" -> 7
      [] lit = "400" -> 400
      [] lit = "403" -> 403
      [] OTHER -> 0

\* A member decoded into a string field holding cur.
DecodeString(cur, j) ==
    CASE j.t = "str" -> [val |-> ToValidUTF8(j.v), ok |-> TRUE]
      [] j.t \in {"absent", "null"} -> [val |-> cur, ok |-> TRUE]
      [] OTHER -> [val |-> cur, ok |-> FALSE]

\* A member decoded into an int field holding cur.
DecodeInt(cur, j) ==
    CASE j.t = "num" -> [val |-> Atoi(j.v), ok |-> TRUE]
      [] j.t \in {"absent", "null"} -> [val |-> cur, ok |-> TRUE]
      [] OTHER -> [val |-> cur, ok |-> FALSE]

\* ID.UnmarshalJSON: the raw bytes of the member, whatever its type.
ID_UnmarshalJSON(cur, j) ==
    IF j.t = "absent" THEN [val |-> cur, ok |-> TRUE]
    ELSE [val |-> RenderLeaf(j), ok |-> TRUE]

ZeroAddress ==
    [ID |-> 0, Currency |-> "", ConvertTo |-> "", Address |-> "", Tag |-> "",
     ForeignID |-> ""]

ZeroPayload ==
    [ID |-> "", ForeignID |-> "", Type |-> "", Status |-> "", Amount |-> "",
     SenderCurrency |-> "", SenderAmount |-> "", ReceiverCurrency |-> "",
     ReceiverAmount |-> ""]

\* json.Unmarshal of a data object into the Alias of Address.
UnmarshalAddressData(f) ==
    LET id  == DecodeInt(0, f["id"])
        cur == DecodeString("", f["currency"])
        cto == DecodeString("", f["convert_to"])
        adr == DecodeString("", f["address"])
        tag == DecodeString("", f["tag"])
        fid == DecodeString("", f["foreign_id"])
    IN  [val |-> [ID |-> id.val, Currency |-> cur.val, ConvertTo |-> cto.val,
                  Address |-> adr.val, Tag |-> tag.val, ForeignID |-> fid.val],
         ok |-> id.ok /\ cur.ok /\ cto.ok /\ adr.ok /\ tag.ok /\ fid.ok]

\* json.Unmarshal of a data object into the Alias of WithdrawCryptoPayload.
UnmarshalPayloadData(f) ==
    LET id  == ID_UnmarshalJSON("", f["id"])
        fid == DecodeString("", f["foreign_id"])
        typ == DecodeString("", f["type"])
        sta == DecodeString("", f["status"])
        amt == DecodeString("", f["amount"])
        scu == DecodeString("", f["sender_currency"])
        sam == DecodeString("", f["sender_amount"])
        rcu == DecodeString("", f["receiver_currency"])
        ram == DecodeString("", f["receiver_amount"])
    IN  [val |-> [ID |-> id.val, ForeignID |-> fid.val, Type |-> typ.val,
                  Status |-> sta.val, Amount |-> amt.val, SenderCurrency |-> scu.val,
                  SenderAmount |-> sam.val, ReceiverCurrency |-> rcu.val,
                  ReceiverAmount |-> ram.val],
         ok |-> id.ok /\ fid.ok /\ typ.ok /\ sta.ok /\ amt.ok /\ scu.ok /\ sam.ok
                  /\ rcu.ok /\ ram.ok]

\* json.Unmarshal(data, &temp), temp being struct{ Data Alias `json:"data"` }:
\* given a JSON value b, the zero Alias and what the data object decodes to
\* (dec), temp.Data and whether Unmarshal returned nil.
UnmarshalEnvelope(b, zero, dec) ==
    CASE b.syn = "null" -> [val |-> zero, ok |-> TRUE]
      [] b.syn = "array" -> [val |-> zero, ok |-> FALSE]
      [] b.data.t \in {"absent", "null"} -> [val |-> zero, ok |-> TRUE]
      [] b.data.t = "obj" -> dec
      [] OTHER -> [val |-> zero, ok |-> FALSE]

\* An UnmarshalJSON that decodes the body itself as the Address, without
\* unwrapping the data member: no member of the envelope is a field.
Address_UnmarshalJSON_NoEnvelope(a, b) ==
    IF b.syn = "array" THEN [val |-> a, err |-> "*json.UnmarshalTypeError"]
    ELSE [val |-> ZeroAddress, err |-> ""]

\* (*Address).UnmarshalJSON on an Address holding a: the Address afterwards
\* and the error ("" is nil).
Address_UnmarshalJSON(a, b) ==
    LET temp == UnmarshalEnvelope(b, ZeroAddress, UnmarshalAddressData(b.data.f))
    IN  IF ~temp.ok THEN [val |-> a, err |-> "*json.UnmarshalTypeError"]
        ELSE [val |-> temp.val, err |-> ""]

\* (*WithdrawCryptoPayload).UnmarshalJSON, likewise.
WithdrawCryptoPayload_UnmarshalJSON(a, b) ==
    LET temp == UnmarshalEnvelope(b, ZeroPayload, UnmarshalPayloadData(b.data.f))
    IN  IF ~temp.ok THEN [val |-> a, err |-> "*json.UnmarshalTypeError"]
        ELSE [val |-> temp.val, err |-> ""]

\* json.NewDecoder(res.Body).Decode(v) for v a pointer to a struct holding a:
\* the stream is read and scanned first, then v's UnmarshalJSON is called
\* (unmarshalled is what it gives on the body).
Decode(r, a, unmarshalled) ==
    CASE ~r.readOK -> [val |-> a, err |-> "read error"]
      [] r.Body.syn = "empty" -> [val |-> a, err |-> "io.EOF"]
      [] r.Body.syn = "invalid" -> [val |-> a, err |-> "*json.SyntaxError"]
      [] OTHER -> unmarshalled

(***************************************************************************)
(* Errors.  An error value is its dynamic type (kind) and, for the two     *)
(* API error structs, their fields; Response is the *http.Response the     *)
(* struct points to (nil flag, and the StatusCode that response holds).    *)
(***************************************************************************)
StatusBadRequest == 400

NilError ==
    [kind |-> "nil", Message |-> "", Code |-> "", Errors |-> {}, ErrorsNil |-> TRUE,
     Response |-> [nil |-> TRUE, StatusCode |-> 0]]

\* An error that is neither of the two API error structs.
PlainError(kind) == [NilError EXCEPT !.kind = kind]

\* The status codes the server answers with.
Statuses == {101, 200, 204, 299, 300, 400, 403, 500}

NoResponse == [kind |-> "none", StatusCode |-> 0, Body |-> EmptyBody, readOK |-> TRUE]

\* What httpClient.Do can deliver: a response whose body reads to its end, or
\* one whose body fails to read (the connection drops, the timeout expires).
Responses ==
    {[kind |-> "response", StatusCode |-> c, Body |-> b, readOK |-> TRUE] :
        c \in Statuses, b \in Bodies}
    \cup {[kind |-> "response", StatusCode |-> c, Body |-> EmptyBody, readOK |-> FALSE] :
        c \in Statuses}

\* The member Response decoded into the field Response *http.Response, which
\* points to a response whose StatusCode is c: whether the field is nil
\* afterwards, the StatusCode of the response afterwards, and whether the
\* member fitted.
UnmarshalResponseField(c, rj) ==
    CASE rj.t = "null" -> [nil |-> TRUE, StatusCode |-> c, ok |-> TRUE]
      [] rj.t = "obj" ->
           LET sc == DecodeInt(c, rj.StatusCode)
           IN  [nil |-> FALSE, StatusCode |-> sc.val, ok |-> sc.ok]
      [] OTHER -> [nil |-> FALSE, StatusCode |-> c, ok |-> TRUE]

\* json.Unmarshal(body, errorResponse), errorResponse being
\* &ErrorResponse{Response: r} and r.StatusCode being c.
UnmarshalErrorResponse(c, b) ==
    LET unchanged == [Message |-> "", Code |-> "",
                      Response |-> [nil |-> FALSE, StatusCode |-> c]]
    IN  CASE b.syn = "null" -> [val |-> unchanged, ok |-> TRUE]
          [] b.syn \in {"invalid", "array", "empty"} -> [val |-> unchanged, ok |-> FALSE]
          [] OTHER ->
               LET msg  == DecodeString("", b.error)
                   code == DecodeString("", b.code)
                   resp == UnmarshalResponseField(c, b.Response)
               IN  [val |-> [Message |-> msg.val, Code |-> code.val,
                             Response |-> [nil |-> resp.nil,
                                           StatusCode |-> resp.StatusCode]],
                    ok |-> msg.ok /\ code.ok /\ resp.ok]

\* json.Unmarshal(body, validationErrorResponse), likewise; the error is
\* dropped by the caller.
UnmarshalValidationErrorResponse(c, b) ==
    LET unchanged == [Errors |-> {}, ErrorsNil |-> TRUE,
                      Response |-> [nil |-> FALSE, StatusCode |-> c]]
    IN  IF b.syn # "object" THEN unchanged
        ELSE LET resp == UnmarshalResponseField(c, b.Response)
                 m    == b.errors.foreign_id
             IN  [Errors |->
                    IF b.errors.t # "obj" \/ m.t = "absent" THEN {}
                    ELSE {<<"foreign_id", DecodeString("", m).val>>},
                  ErrorsNil |-> b.errors.t # "obj",
                  Response |-> [nil |-> resp.nil, StatusCode |-> resp.StatusCode]]

\* Whether a status is a success for checkResponse.
IsSuccess(c) == c >= 200 /\ c <= 299

\* The error checkResponse returns when the body of a non-2xx response
\* cannot be read.
ReadFailureError(r) ==
    [PlainError("*ErrorResponse") EXCEPT
        !.Response = [nil |-> FALSE, StatusCode |-> r.StatusCode]]

checkResponse(r) ==
    IF IsSuccess(r.StatusCode) THEN NilError
    ELSE IF ~r.readOK THEN ReadFailureError(r)
    ELSE LET body == r.Body
             u    == UnmarshalErrorResponse(r.StatusCode, body)
             errorResponse ==
                 IF BodyText(body) = "" THEN
                     [Message |-> "", Code |-> "",
                      Response |-> [nil |-> FALSE, StatusCode |-> r.StatusCode]]
                 ELSE IF ~u.ok THEN [u.val EXCEPT !.Message = BodyText(body)]
                 ELSE u.val
             \* r.StatusCode as the code reads it next: json.Unmarshal has
             \* written through errorResponse.Response, which is r.
             status == errorResponse.Response.StatusCode
         IN  IF status = StatusBadRequest
             THEN LET v == UnmarshalValidationErrorResponse(status, body)
                  IN  [kind |-> "*ValidationErrorResponse", Message |-> "", Code |-> "",
                       Errors |-> v.Errors, ErrorsNil |-> v.ErrorsNil,
                       Response |-> v.Response]
             ELSE [kind |-> "*ErrorResponse", Message |-> errorResponse.Message,
                   Code |-> errorResponse.Code, Errors |-> {}, ErrorsNil |-> TRUE,
                   Response |-> errorResponse.Response]

(***************************************************************************)
(* doRequest after httpClient.Do has returned a response, and the return   *)
(* of the operation.                                                       *)
(***************************************************************************)
NilOut == [nil |-> TRUE, Address |-> ZeroAddress, Payload |-> ZeroPayload]

\* checkResponse, then Decode into the operation's output variable (declared
\* `var address Address`, `var withdrawCryptoPayload WithdrawCryptoPayload`):
\* the error doRequest returns and the output variable afterwards.
doRequest(o, r) ==
    LET e == checkResponse(r)
    IN  IF e.kind # "nil"
        THEN [err |-> e, Address |-> ZeroAddress, Payload |-> ZeroPayload]
        ELSE IF o = "TakeAddress"
        THEN LET d == Decode(r, ZeroAddress, Address_UnmarshalJSON(ZeroAddress, r.Body))
             IN  [err |-> IF d.err = "" THEN NilError ELSE PlainError(d.err),
                  Address |-> d.val, Payload |-> ZeroPayload]
        ELSE LET d == Decode(r, ZeroPayload, WithdrawCryptoPayload_UnmarshalJSON(ZeroPayload, r.Body))
             IN  [err |-> IF d.err = "" THEN NilError ELSE PlainError(d.err),
                  Address |-> ZeroAddress, Payload |-> d.val]

\* A return that hands out the output variable whatever doRequest returned.
Return_AlwaysOutput(dr) ==
    [out |-> [nil |-> FALSE, Address |-> dr.Address, Payload |-> dr.Payload],
     err |-> dr.err]

\* `if err != nil { return nil, err }; return &address, nil`
Return(dr) ==
    IF dr.err.kind # "nil" THEN [out |-> NilOut, err |-> dr.err]
    ELSE [out |-> [nil |-> FALSE, Address |-> dr.Address, Payload |-> dr.Payload],
          err |-> NilError]

\* A doRequest that hands the request to the transport again after an error.
AfterDoError_Retry == "doRequest"

\* Where doRequest goes when httpClient.Do returns an error: it returns.
AfterDoError == "done"

(***************************************************************************)
(* The state machine.  A call is idle, has built its request (doRequest),  *)
(* has handed it to the transport (awaiting), or has returned (done).      *)
(***************************************************************************)
Calls == {"c1"}

NoArgs == [called |-> FALSE, apiKey |-> "", apiSecret |-> "", baseEndpoint |-> ""]

Init ==
    /\ client = NilClient
    /\ newArgs = NoArgs
    /\ newErr = ""
    /\ pc = [c \in Calls |-> "idle"]
    /\ op = [c \in Calls |-> "TakeAddress"]
    /\ input = [c \in Calls |-> NilInput]
    /\ req = [c \in Calls |-> NoRequest]
    /\ sent = [c \in Calls |-> 0]
    /\ res = [c \in Calls |-> NoResponse]
    /\ err = [c \in Calls |-> NilError]
    /\ out = [c \in Calls |-> NilOut]

callVars == <<pc, op, input, req, sent, res, err, out>>

clientVars == <<client, newArgs, newErr>>

\* The caller constructs a client; no call is in flight.
Construct(apiKey, apiSecret, baseEndpoint) ==
    /\ \A c \in DOMAIN pc : pc[c] = "idle"
    /\ LET n == NewClient(apiKey, apiSecret, baseEndpoint)
       IN  /\ client' = n.client
           /\ newErr' = n.err
    /\ newArgs' = [called |-> TRUE, apiKey |-> apiKey, apiSecret |-> apiSecret,
                   baseEndpoint |-> baseEndpoint]
    /\ UNCHANGED callVars

\* TakeAddress and WithdrawCrypto up to the call of doRequest: the URL, the
\* serialization, the request and its headers.
Begin(c, o, in) ==
    /\ pc[c] = "idle"
    /\ ~client.nil
    /\ op' = [op EXCEPT ![c] = o]
    /\ input' = [input EXCEPT ![c] = in]
    /\ LET m == Marshal(o, in)
       IN  IF ~m.ok
           THEN /\ pc' = [pc EXCEPT ![c] = "done"]
                /\ err' = [err EXCEPT ![c] = PlainError("*json.UnsupportedValueError")]
                /\ req' = [req EXCEPT ![c] = NoRequest]
           ELSE /\ pc' = [pc EXCEPT ![c] = "doRequest"]
                /\ err' = [err EXCEPT ![c] = NilError]
                /\ req' = [req EXCEPT ![c] = BuildRequest(client, o, m.j)]
    /\ sent' = [sent EXCEPT ![c] = 0]
    /\ res' = [res EXCEPT ![c] = NoResponse]
    /\ out' = [out EXCEPT ![c] = NilOut]
    /\ client' = [client EXCEPT
                     !.BaseURL = ResolveReference_Receiver(@, RelativePath(o))]
    /\ UNCHANGED <<newArgs, newErr>>

TakeAddress(c, in) == Begin(c, "TakeAddress", in)

WithdrawCrypto(c, in) == Begin(c, "WithdrawCrypto", in)

\* doRequest hands the request to the transport.
Do(c) ==
    /\ pc[c] = "doRequest"
    /\ sent' = [sent EXCEPT ![c] = @ + 1]
    /\ pc' = [pc EXCEPT ![c] = "awaiting"]
    /\ UNCHANGED <<op, input, req, res, err, out>>
    /\ UNCHANGED clientVars

\* httpClient.Do returns an error: no connection, a timeout before the
\* response.  doRequest and the operation return it.
DoFails(c) ==
    /\ pc[c] = "awaiting"
    /\ res' = [res EXCEPT ![c] = [NoResponse EXCEPT !.kind = "error"]]
    /\ err' = [err EXCEPT ![c] = PlainError("*url.Error")]
    /\ out' = [out EXCEPT ![c] = NilOut]
    /\ pc' = [pc EXCEPT ![c] = AfterDoError]
    /\ UNCHANGED <<op, input, req, sent>>
    /\ UNCHANGED clientVars

\* httpClient.Do returns the response r: the rest of doRequest, and the
\* return of the operation.
DoResponds(c, r) ==
    /\ pc[c] = "awaiting"
    /\ res' = [res EXCEPT ![c] = r]
    /\ LET ret == Return(doRequest(op[c], r))
       IN  /\ err' = [err EXCEPT ![c] = ret.err]
           /\ out' = [out EXCEPT ![c] = ret.out]
    /\ pc' = [pc EXCEPT ![c] = "done"]
    /\ UNCHANGED <<op, input, req, sent>>
    /\ UNCHANGED clientVars

\* The caller has taken the result; the call's variables go out of scope.
Finish(c) ==
    /\ pc[c] = "done"
    /\ pc' = [pc EXCEPT ![c] = "idle"]
    /\ op' = [op EXCEPT ![c] = "TakeAddress"]
    /\ input' = [input EXCEPT ![c] = NilInput]
    /\ req' = [req EXCEPT ![c] = NoRequest]
    /\ sent' = [sent EXCEPT ![c] = 0]
    /\ res' = [res EXCEPT ![c] = NoResponse]
    /\ err' = [err EXCEPT ![c] = NilError]
    /\ out' = [out EXCEPT ![c] = NilOut]
    /\ UNCHANGED clientVars

Next ==
    \/ \E k \in ApiKeys, s \in ApiSecrets, e \in Endpoints : Construct(k, s, e)
    \/ \E c \in DOMAIN pc, in \in TakeAddressInputs : TakeAddress(c, in)
    \/ \E c \in DOMAIN pc, in \in WithdrawCryptoInputs : WithdrawCrypto(c, in)
    \/ \E c \in DOMAIN pc : Do(c)
    \/ \E c \in DOMAIN pc : DoFails(c)
    \/ \E c \in DOMAIN pc, r \in Responses : DoResponds(c, r)
    \/ \E c \in DOMAIN pc : Finish(c)

Spec == Init /\ [][Next]_vars

(***************************************************************************)
(* Concurrent use: two callers share one client, each in a call of its     *)
(* own, their steps interleaved in every order.  The servers answer with   *)
(* one response of each kind.                                              *)
(***************************************************************************)
ConcurrentCalls == {"c1", "c2"}

ConcurrentEndpoints == {APIBaseLiveURL, TestServerURL}

ConcurrentTakeAddressInputs ==
    {in \in TakeAddressInputs :
        ~in.nil /\ in.ForeignID = "user-id:2048"}

ConcurrentWithdrawCryptoInputs ==
    {in \in WithdrawCryptoInputs :
        ~in.nil /\ in.ForeignID = "user-id:2048"}

ConcurrentResponses ==
    {r \in Responses :
        \/ /\ r.StatusCode = 200
           /\ r.readOK
           /\ r.Body.syn = "object"
           /\ r.Body.error.t = "absent" /\ r.Body.code.t = "absent"
           /\ r.Body.errors.t = "absent" /\ r.Body.Response.t = "absent"
           /\ r.Body.data.t = "obj"
           /\ \A k \in DataKeySet : r.Body.data.f[k].t \in {"str", "num"}
           /\ r.Body.data.f["id"].t = "num"
        \/ /\ r.StatusCode = 400
           /\ r.readOK
           /\ r.Body \in ValidationBodies
        \/ /\ r.StatusCode = 403
           /\ r.Body \in ResponseBodies \cup {EmptyBody}}

InitConcurrent ==
    /\ client = NilClient
    /\ newArgs = NoArgs
    /\ newErr = ""
    /\ pc = [c \in ConcurrentCalls |-> "idle"]
    /\ op = [c \in ConcurrentCalls |-> "TakeAddress"]
    /\ input = [c \in ConcurrentCalls |-> NilInput]
    /\ req = [c \in ConcurrentCalls |-> NoRequest]
    /\ sent = [c \in ConcurrentCalls |-> 0]
    /\ res = [c \in ConcurrentCalls |-> NoResponse]
    /\ err = [c \in ConcurrentCalls |-> NilError]
    /\ out = [c \in ConcurrentCalls |-> NilOut]

NextConcurrent ==
    \/ \E k \in ApiKeys, s \in ApiSecrets, e \in ConcurrentEndpoints : Construct(k, s, e)
    \/ \E c \in DOMAIN pc, in \in ConcurrentTakeAddressInputs : TakeAddress(c, in)
    \/ \E c \in DOMAIN pc, in \in ConcurrentWithdrawCryptoInputs : WithdrawCrypto(c, in)
    \/ \E c \in DOMAIN pc : Do(c)
    \/ \E c \in DOMAIN pc : DoFails(c)
    \/ \E c \in DOMAIN pc, r \in ConcurrentResponses : DoResponds(c, r)
    \/ \E c \in DOMAIN pc : Finish(c)

SpecConcurrent == InitConcurrent /\ [][NextConcurrent]_vars

(***************************************************************************)
(* The revision of the library in src/coinspaid.go.  It differs in three   *)
(* places: NewClient takes no endpoint and returns no error;               *)
(* Address.UnmarshalJSON returns nil when json.Unmarshal fails; doRequest   *)
(* decodes into &v, v holding the **Address of TakeAddress.  It has no     *)
(* WithdrawCrypto.  checkResponse, createSignedRequestHeader and the       *)
(* request of TakeAddress are the same.                                    *)
(***************************************************************************)
baseURL == "https://app.coinspaid.com/api/v2/"

\* NewClient(apiKey, apiSecret) of src/coinspaid.go.
NewClient0(apiKey, apiSecret) ==
    [client |-> [nil |-> FALSE, apiKey |-> apiKey, apiSecret |-> apiSecret,
                 BaseURL |-> url_Parse(baseURL).URL],
     err |-> ""]

\* (*Address).UnmarshalJSON of src/coinspaid.go: `if err != nil { return nil }`.
Address_UnmarshalJSON0(a, b) ==
    LET temp == UnmarshalEnvelope(b, ZeroAddress, UnmarshalAddressData(b.data.f))
    IN  IF ~temp.ok THEN [val |-> a, err |-> ""]
        ELSE [val |-> temp.val, err |-> ""]

\* doRequest of src/coinspaid.go after httpClient.Do has returned r, v being
\* &address and address being &Address{}: Decode(&v) reaches the pointer
\* address, sets it to nil for the JSON value null and calls UnmarshalJSON on
\* it otherwise.
doRequest0(r) ==
    LET e == checkResponse(r)
    IN  IF e.kind # "nil" THEN [err |-> e, nil |-> FALSE, Address |-> ZeroAddress]
        ELSE IF r.readOK /\ r.Body.syn = "null"
        THEN [err |-> NilError, nil |-> TRUE, Address |-> ZeroAddress]
        ELSE LET d == Decode(r, ZeroAddress, Address_UnmarshalJSON0(ZeroAddress, r.Body))
             IN  [err |-> IF d.err = "" THEN NilError ELSE PlainError(d.err),
                  nil |-> FALSE, Address |-> d.val]

\* `if err != nil { return nil, err }; return address, nil` of src/coinspaid.go.
Return0(dr) ==
    IF dr.err.kind # "nil" THEN [out |-> NilOut, err |-> dr.err]
    ELSE [out |-> [nil |-> dr.nil, Address |-> dr.Address, Payload |-> ZeroPayload],
          err |-> NilError]

Construct0(apiKey, apiSecret) ==
    /\ \A c \in DOMAIN pc : pc[c] = "idle"
    /\ LET n == NewClient0(apiKey, apiSecret)
       IN  /\ client' = n.client
           /\ newErr' = n.err
    /\ newArgs' = [called |-> TRUE, apiKey |-> apiKey, apiSecret |-> apiSecret,
                   baseEndpoint |-> baseURL]
    /\ UNCHANGED callVars

DoResponds0(c, r) ==
    /\ pc[c] = "awaiting"
    /\ res' = [res EXCEPT ![c] = r]
    /\ LET ret == Return0(doRequest0(r))
       IN  /\ err' = [err EXCEPT ![c] = ret.err]
           /\ out' = [out EXCEPT ![c] = ret.out]
    /\ pc' = [pc EXCEPT ![c] = "done"]
    /\ UNCHANGED <<op, input, req, sent>>
    /\ UNCHANGED clientVars

Next0 ==
    \/ \E k \in ApiKeys, s \in ApiSecrets : Construct0(k, s)
    \/ \E c \in DOMAIN pc, in \in TakeAddressInputs : TakeAddress(c, in)
    \/ \E c \in DOMAIN pc : Do(c)
    \/ \E c \in DOMAIN pc : DoFails(c)
    \/ \E c \in DOMAIN pc, r \in Responses : DoResponds0(c, r)
    \/ \E c \in DOMAIN pc : Finish(c)

SpecCoinspaidGo == Init /\ [][Next0]_vars

(***************************************************************************)
(* Claims.  Returned(c): call c has returned to its caller.  Answered(c):  *)
(* it returned after httpClient.Do delivered a response.                   *)
(***************************************************************************)
Returned(c) == pc[c] = "done"

Answered(c) == Returned(c) /\ res[c].kind = "response"

APIErrorKinds == {"*ErrorResponse", "*ValidationErrorResponse"}

\* The kind of result the status code alone calls for.
KindForStatus(s) ==
    IF s \in 200..299 THEN "nil"
    ELSE IF s = 400 THEN "*ValidationErrorResponse"
    ELSE "*ErrorResponse"

\* C1: for every response handed to checkResponse the kind of its result is
\* decided by the status code alone (2xx: no error, 400: a
\* *ValidationErrorResponse, any other: an *ErrorResponse), whatever the body
\* is and whether or not it can be read; and the operation returns that same
\* error value to its caller.
C1_KindByStatusAlone ==
    \A c \in DOMAIN pc :
        Answered(c) =>
            /\ checkResponse(res[c]).kind = KindForStatus(res[c].StatusCode)
            /\ checkResponse(res[c]).kind # "nil" => err[c] = checkResponse(res[c])

\* A body that is a JSON object of the shape {error, code}.
IsErrorShape(b) == b.syn = "object" /\ b.error.t = "str" /\ b.code.t = "str"

\* A body that is empty or does not parse as that shape: it is no JSON, it
\* is no object, or its error or code is not a string.
IsNotErrorShape(b) ==
    \/ b.syn \in {"empty", "invalid", "array"}
    \/ b.syn = "object" /\ (b.error.t = "num" \/ b.code.t = "num")

\* C2: for a response whose status is neither 2xx nor 400 and whose body was
\* read: a body of the shape {error, code} gives an ErrorResponse with that
\* Message and that Code; an empty body or one that does not parse as that
\* shape gives Message = the raw body text and Code = "".
C2_ErrorResponseFields ==
    \A c \in DOMAIN pc :
        (/\ Answered(c)
         /\ res[c].readOK
         /\ res[c].StatusCode \notin 200..299
         /\ res[c].StatusCode # 400) =>
            LET b == res[c].Body
            IN  /\ IsErrorShape(b) =>
                      err[c].Message = b.error.v /\ err[c].Code = b.code.v
                /\ IsNotErrorShape(b) =>
                      err[c].Message = BodyText(b) /\ err[c].Code = ""

\* Whether a body is the {"data": {...}} envelope of operation o: an object
\* whose data is an object, each member of it that is present having the type
\* of the field it decodes into.
MatchesEnvelope(o, b) ==
    /\ b.syn = "object"
    /\ b.data.t = "obj"
    /\ \A k \in DataKeySet \ {"id"} : b.data.f[k].t \in {"absent", "str"}
    /\ o = "TakeAddress" => b.data.f["id"].t \in {"absent", "num"}

\* C3: a 2xx response whose body does not match the operation's envelope
\* makes the operation return a non-nil error, never an output with a nil
\* error.
C3_MismatchIsDecodeError ==
    \A c \in DOMAIN pc :
        (/\ Answered(c)
         /\ res[c].readOK
         /\ res[c].StatusCode \in 200..299
         /\ ~MatchesEnvelope(op[c], res[c].Body)) =>
            err[c].kind # "nil" /\ out[c].nil

\* A transport failure happened during the call: httpClient.Do failed, or the
\* body of the response could not be read.
TransportFailed(c) ==
    \/ res[c].kind = "error"
    \/ res[c].kind = "response" /\ ~res[c].readOK

\* C7: a call during which the transport failed returns an error that is
\* neither an *ErrorResponse nor a *ValidationErrorResponse.
C7_TransportErrorIsGeneric ==
    \A c \in DOMAIN pc :
        Returned(c) /\ TransportFailed(c) =>
            err[c].kind \notin APIErrorKinds \cup {"nil"}

\* Whether an endpoint ends with a slash.
EndsWithSlash(e) ==
    LET p == url_Parse(e).URL.Path IN p # <<>> /\ p[Len(p)] = ""

\* {baseURL}/{operation path}: the endpoint, a slash unless it ends with one,
\* and the operation path.
ClaimedURL(e, o) ==
    e \o (IF EndsWithSlash(e) THEN "" ELSE "/") \o JoinPath(RelativePath(o))

\* C8: the request of every operation goes to {baseURL}/{operation path},
\* whether or not the base endpoint ends with a slash.
C8_URLAppendsOperationPath ==
    \A c \in DOMAIN pc :
        pc[c] \in {"doRequest", "awaiting"} =>
            /\ req[c].Method = "POST"
            /\ req[c].URL = ClaimedURL(newArgs.baseEndpoint, op[c])

\* sign(secret, B): the hex HMAC-SHA-512 of B keyed by secret.
Sign(secret, B) == [alg |-> "hex(HMAC-SHA512)", key |-> secret, msg |-> B]

\* The request of call c has been handed to the transport.
Issued(c) == pc[c] \in {"awaiting", "done"} /\ sent[c] > 0

\* C4: every issued request carries X-Processing-Signature = sign(apiSecret,
\* B) for B the body it is sent with, B being the JSON serialization of the
\* input; X-Processing-Key is the apiKey; and the apiSecret is the value of
\* no header and not the body.
C4_SignatureOverSentBody ==
    \A c \in DOMAIN pc :
        Issued(c) =>
            /\ req[c].Body = Marshal(op[c], input[c]).j
            /\ req[c].Header.XProcessingSignature = Sign(client.apiSecret, req[c].Body)
            /\ req[c].Header.XProcessingKey = client.apiKey
            /\ client.apiSecret \notin
                  {req[c].Header.Accept, req[c].Header.ContentType,
                   req[c].Header.XProcessingKey, req[c].Body, req[c].URL}

\* A signed request of a non-nil input is on the wire.
C4_Witness ==
    \E c \in DOMAIN pc :
        /\ pc[c] = "awaiting"
        /\ sent[c] = 1
        /\ ~input[c].nil
        /\ op[c] = "WithdrawCrypto"
        /\ req[c].Header.XProcessingSignature.msg = req[c].Body
        /\ req[c].Body # ""

\* The output variable a successful decode of response r leaves for o.
Decoded(o, r) ==
    IF o = "TakeAddress"
    THEN LET d == Decode(r, ZeroAddress, Address_UnmarshalJSON(ZeroAddress, r.Body))
         IN  [ok |-> d.err = "", Address |-> d.val, Payload |-> ZeroPayload]
    ELSE LET d == Decode(r, ZeroPayload, WithdrawCryptoPayload_UnmarshalJSON(ZeroPayload, r.Body))
         IN  [ok |-> d.err = "", Address |-> ZeroAddress, Payload |-> d.val]

DocumentedEnvelope(o, b) ==
    /\ b.syn = "object"
    /\ b.data.t = "obj"
    /\ b.data.f["id"].t = "num"
    /\ \A k \in DataKeySet \ {"id"} :
          b.data.f[k].t = "str" /\ b.data.f[k].v # BadUTF8

\* C6: a 2xx response whose body is the documented envelope {"data": D}
\* gives a nil error and an output whose fields are D's; when D carries the
\* caller's currency and foreign_id, so does the Address; a withdrawal's
\* identifier is D's id (1 for "id": 1).
C6_EnvelopeUnwrapped ==
    \A c \in DOMAIN pc :
        (/\ Answered(c)
         /\ res[c].readOK
         /\ res[c].StatusCode \in 200..299
         /\ DocumentedEnvelope(op[c], res[c].Body)) =>
            LET D == res[c].Body.data.f
                a == out[c].Address
                w == out[c].Payload
            IN  /\ err[c].kind = "nil"
                /\ ~out[c].nil
                /\ op[c] = "TakeAddress" =>
                      /\ D["id"].v = "1" => a.ID = 1
                      /\ a.Currency = D["currency"].v
                      /\ a.ConvertTo = D["convert_to"].v
                      /\ a.Address = D["address"].v
                      /\ a.Tag = D["tag"].v
                      /\ a.ForeignID = D["foreign_id"].v
                      /\ (/\ ~input[c].nil
                          /\ D["currency"].v = input[c].Currency
                          /\ D["foreign_id"].v = input[c].ForeignID) =>
                            /\ a.Currency = input[c].Currency
                            /\ a.ForeignID = input[c].ForeignID
                /\ op[c] = "WithdrawCrypto" =>
                      /\ w.ID = D["id"].v
                      /\ D["id"].v = "1" => w.ID = "1"
                      /\ w.ForeignID = D["foreign_id"].v
                      /\ w.Type = D["type"].v
                      /\ w.Status = D["status"].v
                      /\ w.Amount = D["amount"].v
                      /\ w.SenderCurrency = D["sender_currency"].v
                      /\ w.SenderAmount = D["sender_amount"].v
                      /\ w.ReceiverCurrency = D["receiver_currency"].v
                      /\ w.ReceiverAmount = D["receiver_amount"].v

\* The server echoes the caller's currency and foreign_id in the documented
\* envelope, and TakeAddress returns them.
C6_Witness ==
    \E c \in DOMAIN pc :
        /\ Answered(c)
        /\ op[c] = "TakeAddress"
        /\ res[c].StatusCode = 200
        /\ DocumentedEnvelope(op[c], res[c].Body)
        /\ ~input[c].nil
        /\ input[c].Currency = "EUR"
        /\ res[c].Body.data.f["currency"].v = input[c].Currency
        /\ res[c].Body.data.f["foreign_id"].v = input[c].ForeignID
        /\ out[c].Address.Currency = "EUR"
        /\ out[c].Address.ForeignID = "user-id:2048"

\* C10: no retries.  A call hands its request to the transport at most once:
\* never when the serialization fails, exactly once otherwise; after a
\* transport error, a non-2xx response or a decode failure it has returned
\* with that one request sent.
C10_AtMostOneRequest ==
    \A c \in DOMAIN pc :
        /\ sent[c] <= 1
        /\ Returned(c) => sent[c] = IF Marshal(op[c], input[c]).ok THEN 1 ELSE 0
        /\ pc[c] = "awaiting" => sent[c] = 1
        /\ pc[c] = "doRequest" => sent[c] = 0

\* A WithdrawCrypto call has returned a transport error, its request sent once.
C10_Witness ==
    \E c \in DOMAIN pc :
        /\ Returned(c)
        /\ op[c] = "WithdrawCrypto"
        /\ res[c].kind = "error"
        /\ err[c].kind = "*url.Error"
        /\ sent[c] = 1

\* C9: NewClient returns (nil, an error) when an argument is the empty string
\* or the endpoint does not parse as a URL, and otherwise a client holding
\* those credentials and the parsed endpoint, with a nil error; constructing
\* sends no request.
C9_NewClientContract ==
    newArgs.called =>
        LET bad == \/ newArgs.apiKey = ""
                   \/ newArgs.apiSecret = ""
                   \/ newArgs.baseEndpoint = ""
                   \/ newArgs.baseEndpoint = UnparsableEndpoint
        IN  /\ bad => client.nil /\ newErr # ""
            /\ ~bad =>
                  /\ ~client.nil
                  /\ newErr = ""
                  /\ client.apiKey = newArgs.apiKey
                  /\ client.apiSecret = newArgs.apiSecret
                  /\ URLString(client.BaseURL) = newArgs.baseEndpoint
            /\ (\A c \in DOMAIN pc : pc[c] = "idle") => \A c \in DOMAIN pc : sent[c] = 0

\* The client NewClient returned for the arguments of the last construction.
Constructed == NewClient(newArgs.apiKey, newArgs.apiSecret, newArgs.baseEndpoint).client

\* The request of call c as its own operation and input determine it, from
\* the arguments the client was constructed with.
OwnRequest(c) ==
    LET j == Marshal(op[c], input[c]).j
    IN  [Method |-> "POST",
         URL |-> URLString(ResolveReference(url_Parse(newArgs.baseEndpoint).URL,
                                            RelativePath(op[c]))),
         Body |-> j,
         Header |-> [Accept |-> "application/json", ContentType |-> "application/json",
                     XProcessingKey |-> newArgs.apiKey,
                     XProcessingSignature |->
                         [alg |-> "hex(HMAC-SHA512)", key |-> newArgs.apiSecret,
                          msg |-> j]]]

\* In every state: the client is the constructed one, the request of a call
\* is its own, and the result of an answered call is that of its response.
IndependentCalls ==
    /\ newArgs.called => client = Constructed
    /\ \A c \in DOMAIN pc :
          /\ pc[c] \in {"doRequest", "awaiting"} => req[c] = OwnRequest(c)
          /\ Returned(c) /\ sent[c] = 1 => req[c] = OwnRequest(c)
          /\ Answered(c) =>
                /\ err[c] = Return(doRequest(op[c], res[c])).err
                /\ out[c] = Return(doRequest(op[c], res[c])).out

\* In every step: while a call is in flight the client and the arguments of
\* its construction stay, and a call that takes no step keeps its request,
\* its response and its result.
LocalStep ==
    /\ (\E c \in DOMAIN pc : pc[c] # "idle") =>
          /\ client' = client
          /\ newArgs' = newArgs
    /\ \A c \in DOMAIN pc :
          pc'[c] = pc[c] =>
              /\ op'[c] = op[c]
              /\ input'[c] = input[c]
              /\ req'[c] = req[c]
              /\ sent'[c] = sent[c]
              /\ res'[c] = res[c]
              /\ err'[c] = err[c]
              /\ out'[c] = out[c]

\* C11: no call mutates the Client.  In every interleaving of concurrent
\* TakeAddress and WithdrawCrypto calls on one client, apiKey, apiSecret and
\* the base URL stay what NewClient made them, and the request (URL, headers,
\* body, signature) and the result of each call depend only on its own input
\* and its own response, never on another call in flight.
C11_NoCallMutatesClient == []IndependentCalls /\ [][LocalStep]_vars

\* Two calls of different operations overlap on one client: one has returned
\* the output of its 2xx response while the other, begun before that
\* return, still awaits its response.
C11_Witness ==
    /\ ~client.nil
    /\ pc["c1"] = "done"
    /\ Answered("c1")
    /\ op["c1"] = "TakeAddress"
    /\ err["c1"].kind = "nil"
    /\ ~out["c1"].nil
    /\ "c2" \in DOMAIN pc
    /\ pc["c2"] = "awaiting"
    /\ op["c2"] = "WithdrawCrypto"
    /\ req["c2"].Body # req["c1"].Body
    /\ req["c2"].URL # req["c1"].URL

====
